---- MODULE Spec2Model ----
(***************************************************************************)
(* Model of the thor ledger record types: tx.Transaction                   *)
(* (src/tx/transaction.go) and block.Block (src/block/block.go).           *)
(*                                                                         *)
(* Three specifications share the module:                                  *)
(*   SpecGas   Transaction.IntrinsicGas, statement by statement            *)
(*   SpecHash  concurrent Transaction.Hash calls on one instance           *)
(*   Spec      the object model: transactions, blocks, their accessors,    *)
(*             WithSignature, the RLP codec and the derived caches         *)
(***************************************************************************)
EXTENDS Integers, Sequences, FiniteSets, TLC

Nil == "nil"

(***************************************************************************)
(* math/big.  TLC integers are 32 bits wide, IntrinsicGas accumulates in   *)
(* a big.Int and compares against 64 bits, so a magnitude is a little-     *)
(* endian sequence of NLimbs limbs to the base 2^16 and a big.Int is a     *)
(* sign and a magnitude, as in math/big.                                   *)
(***************************************************************************)
NLimbs == 6
Base == 2^16
WordLimbs == 64 \div 16

NatZero == [i \in 1..NLimbs |-> 0]

\* the magnitude of a machine integer 0 <= n < 2^31
NatOf(n) == [i \in 1..NLimbs |-> IF i = 1 THEN n % Base ELSE IF i = 2 THEN n \div Base ELSE 0]

RECURSIVE NatAddFrom(_, _, _, _)
NatAddFrom(a, b, i, carry) ==
    IF i > NLimbs THEN <<>>
    ELSE LET s == a[i] + b[i] + carry
         IN  <<s % Base>> \o NatAddFrom(a, b, i + 1, s \div Base)

NatAdd(a, b) == NatAddFrom(a, b, 1, 0)

\* a - b for a >= b
RECURSIVE NatSubFrom(_, _, _, _)
NatSubFrom(a, b, i, borrow) ==
    IF i > NLimbs THEN <<>>
    ELSE LET d == a[i] - b[i] - borrow
         IN  IF d < 0 THEN <<d + Base>> \o NatSubFrom(a, b, i + 1, 1)
                      ELSE <<d>> \o NatSubFrom(a, b, i + 1, 0)

NatSub(a, b) == NatSubFrom(a, b, 1, 0)

RECURSIVE NatMulFrom(_, _, _, _)
NatMulFrom(a, k, i, carry) ==
    IF i > NLimbs THEN <<>>
    ELSE LET p == a[i] * k + carry
         IN  <<p % Base>> \o NatMulFrom(a, k, i + 1, p \div Base)

\* a * k for a small factor k
NatMul(a, k) == NatMulFrom(a, k, 1, 0)

\* -1, 0, 1 as a < b, a = b, a > b, deciding at the highest differing limb
RECURSIVE NatCmpFrom(_, _, _)
NatCmpFrom(a, b, i) ==
    IF i = 0 THEN 0
    ELSE IF a[i] < b[i] THEN -1
    ELSE IF a[i] > b[i] THEN 1
    ELSE NatCmpFrom(a, b, i - 1)

NatCmp(a, b) == NatCmpFrom(a, b, NLimbs)

\* 2^e as a magnitude
NatPow2(e) == [i \in 1..NLimbs |-> IF i = (e \div 16) + 1 THEN 2^(e % 16) ELSE 0]

BigOf(n) == [neg |-> FALSE, abs |-> NatOf(n)]

\* new(big.Int).SetUint64(n) for a magnitude n below 2^64
SetUint64(n) == [neg |-> FALSE, abs |-> n]

BigNorm(neg, abs) == [neg |-> neg /\ abs # NatZero, abs |-> abs]

\* big.Int.Add: z = x + y
BigAdd(x, y) ==
    IF x.neg = y.neg THEN BigNorm(x.neg, NatAdd(x.abs, y.abs))
    ELSE IF NatCmp(x.abs, y.abs) >= 0 THEN BigNorm(x.neg, NatSub(x.abs, y.abs))
    ELSE BigNorm(y.neg, NatSub(y.abs, x.abs))

\* big.Int.Sub: z = x - y
BigSub(x, y) == BigAdd(x, BigNorm(~y.neg, y.abs))

RECURSIVE LimbBitLen(_)
LimbBitLen(n) == IF n = 0 THEN 0 ELSE 1 + LimbBitLen(n \div 2)

RECURSIVE NatBitLenFrom(_, _)
NatBitLenFrom(a, i) ==
    IF i = 0 THEN 0
    ELSE IF a[i] # 0 THEN (i - 1) * 16 + LimbBitLen(a[i])
    ELSE NatBitLenFrom(a, i - 1)

\* big.Int.BitLen: the length of the absolute value in bits
BitLen(x) == NatBitLenFrom(x.abs, NLimbs)

\* big.Int.Uint64: the low 64 bits of the absolute value
Uint64(x) == [i \in 1..NLimbs |-> IF i <= WordLimbs THEN x.abs[i] ELSE 0]

\* 2^64 - 1
MaxUint64 == [i \in 1..NLimbs |-> IF i <= WordLimbs THEN Base - 1 ELSE 0]

(***************************************************************************)
(* The canonical encoding (RLP, as the rlp package encodes and decodes).   *)
(* A byte is 0..255 and an encoding a sequence of bytes.  An optional      *)
(* value (a nil-able pointer) is the empty sequence or a singleton.        *)
(***************************************************************************)
None == <<>>
Some(x) == <<x>>

\* the minimal big-endian bytes of n > 0
RECURSIVE BigEndian(_)
BigEndian(n) == IF n = 0 THEN <<>> ELSE Append(BigEndian(n \div 256), n % 256)

RECURSIVE FromBigEndian(_)
FromBigEndian(b) ==
    IF Len(b) = 0 THEN 0
    ELSE FromBigEndian(SubSeq(b, 1, Len(b) - 1)) * 256 + b[Len(b)]

\* a string or list header: the short form below 56 bytes of content
RlpHead(short, n) ==
    IF n < 56 THEN <<short + n>>
    ELSE <<short + 55 + Len(BigEndian(n))>> \o BigEndian(n)

\* a byte string
RlpBytes(b) ==
    IF Len(b) = 1 /\ b[1] < 128 THEN b ELSE RlpHead(128, Len(b)) \o b

\* an unsigned integer (uint64, or a non-negative *big.Int)
RlpUint(n) == RlpBytes(BigEndian(n))

\* a list, given the concatenated encodings of its elements
RlpList(payload) == RlpHead(192, Len(payload)) \o payload

\* a pointer to a byte array: nil is the empty string
RlpOptBytes(o) == IF o = None THEN <<128>> ELSE RlpBytes(o[1])

RECURSIVE Concat(_)
Concat(ss) == IF Len(ss) = 0 THEN <<>> ELSE ss[1] \o Concat(Tail(ss))

(***************************************************************************)
(* Decoding reads a stream without an input limit: a value is found        *)
(* missing only where its bytes are read.  A decoder is given the bytes,   *)
(* the position and the end (exclusive) of the enclosing list, and         *)
(* answers [err, val, next]; err is Nil on success.  Each decoder is       *)
(* written as a reader of the header followed by a step on what it read.   *)
(***************************************************************************)
Failed(e, v) == [err |-> e, val |-> v, next |-> 0]
Decoded(v, n) == [err |-> Nil, val |-> v, next |-> n]

Item(kind, at, size) == [err |-> Nil, kind |-> kind, at |-> at, size |-> size, next |-> at + size]

\* a value whose size is written in the ll bytes after the tag
RlpLongItem(bs, pos, end, kind, ll, lb, size) ==
    IF pos + ll > Len(bs) THEN [err |-> "EOF"]
    ELSE IF lb[1] = 0 \/ size < 56 THEN [err |-> "non-canonical size"]
    ELSE IF pos + 1 + ll + size > end THEN [err |-> "element larger than containing list"]
    ELSE Item(kind, pos + 1 + ll, size)

RlpShortItem(pos, end, kind, size) ==
    IF pos + 1 + size > end THEN [err |-> "element larger than containing list"]
    ELSE Item(kind, pos + 1, size)

RlpTagged(bs, pos, end, b) ==
    IF b < 128 THEN Item("byte", pos, 1)
    ELSE IF b < 184 THEN RlpShortItem(pos, end, "string", b - 128)
    ELSE IF b < 192 THEN RlpLongItem(bs, pos, end, "string", b - 183,
                                     SubSeq(bs, pos + 1, pos + b - 183),
                                     FromBigEndian(SubSeq(bs, pos + 1, pos + b - 183)))
    ELSE IF b < 248 THEN RlpShortItem(pos, end, "list", b - 192)
    ELSE RlpLongItem(bs, pos, end, "list", b - 247,
                     SubSeq(bs, pos + 1, pos + b - 247),
                     FromBigEndian(SubSeq(bs, pos + 1, pos + b - 247)))

\* Stream.Kind: the kind, the content and the position after the value at pos
RlpItem(bs, pos, end) ==
    IF pos >= end THEN [err |-> "EOL"]
    ELSE IF pos > Len(bs) THEN [err |-> "EOF"]
    ELSE RlpTagged(bs, pos, end, bs[pos])

BytesRead(h, c) ==
    IF h.kind = "string" /\ h.size = 1 /\ c[1] < 128
    THEN Failed("non-canonical size", <<>>)
    ELSE Decoded(c, h.next)

BytesOf(bs, h) ==
    IF h.err # Nil THEN Failed(h.err, <<>>)
    ELSE IF h.kind = "list" THEN Failed("expected string", <<>>)
    ELSE IF h.next > Len(bs) + 1 THEN Failed("EOF", <<>>)
    ELSE BytesRead(h, SubSeq(bs, h.at, h.next - 1))

\* Stream.Bytes
DecBytes(bs, pos, end) == BytesOf(bs, RlpItem(bs, pos, end))

UintOf(d) ==
    IF d.err # Nil THEN Failed(d.err, 0)
    ELSE IF Len(d.val) > 0 /\ d.val[1] = 0 THEN Failed("non-canonical integer", 0)
    ELSE Decoded(FromBigEndian(d.val), d.next)

\* Stream.Uint / decodeBigInt: no leading zero bytes
DecUint(bs, pos, end) == UintOf(DecBytes(bs, pos, end))

ArrayOf(n, d) ==
    IF d.err # Nil THEN Failed(d.err, None)
    ELSE IF Len(d.val) # n THEN Failed("input string too short or too long", None)
    ELSE Decoded(Some(d.val), d.next)

\* decodeByteArray behind a pointer: a string of exactly n bytes
DecArray(n, bs, pos, end) == ArrayOf(n, DecBytes(bs, pos, end))

OptArrayOf(h, d) ==
    IF h.err # Nil THEN Failed(h.err, None)
    ELSE IF h.size = 0 /\ h.kind # "byte" THEN Decoded(None, h.next)
    ELSE d

\* a pointer tagged rlp:"nil": an empty value decodes to nil
DecOptArray(n, bs, pos, end) == OptArrayOf(RlpItem(bs, pos, end), DecArray(n, bs, pos, end))

ListHeadOf(h) ==
    IF h.err # Nil THEN Failed(h.err, 0)
    ELSE IF h.kind # "list" THEN Failed("expected list", 0)
    ELSE [err |-> Nil, val |-> h.at, next |-> h.next]

\* Stream.List: the bounds of the list's content
DecListHead(bs, pos, end) == ListHeadOf(RlpItem(bs, pos, end))

(***************************************************************************)
(* Structs.  A struct is encoded as the list of its fields in declaration  *)
(* order and decoded field by field into a value that starts as the zero   *)
(* value; a failed decode leaves the fields decoded before the failure.    *)
(***************************************************************************)
HashLen == 32
AddrLen == 20

Field(name, kind) == [name |-> name, kind |-> kind]

\* a slip: DependsOn without its rlp:"nil" tag
BodyFieldsUntagged ==
    << Field("Clauses", "clauses"), Field("GasPrice", "uint"), Field("Gas", "uint"),
       Field("Nonce", "uint"), Field("TimeBarrier", "uint"),
       Field("DependsOn", "array"), Field("Signature", "bytes") >>

\* type body struct
BodyFields ==
    << Field("Clauses", "clauses"), Field("GasPrice", "uint"), Field("Gas", "uint"),
       Field("Nonce", "uint"), Field("TimeBarrier", "uint"),
       Field("DependsOn", "hash"), Field("Signature", "bytes") >>

\* the clause: an optional recipient, a value and the data
ClauseFields == << Field("To", "addr"), Field("Value", "uint"), Field("Data", "bytes") >>

\* the header: its consensus fields, opaque here, and its signature
HeaderFields == << Field("Fields", "uint"), Field("Signature", "bytes") >>

\* Block.EncodeRLP: []interface{}{b.header, b.txs}
BlockFields == << Field("Header", "header"), Field("Txs", "txs") >>

\* Block.DecodeRLP: payload struct {Header; Txs}
PayloadFields == << Field("Header", "header"), Field("Txs", "txs") >>

ZeroBody ==
    [Clauses |-> <<>>, GasPrice |-> 0, Gas |-> 0, Nonce |-> 0, TimeBarrier |-> 0,
     DependsOn |-> None, Signature |-> <<>>]
ZeroClause == [To |-> None, Value |-> 0, Data |-> <<>>]
ZeroHeader == [Fields |-> 0, Signature |-> <<>>]
ZeroPayload == [Header |-> ZeroHeader, Txs |-> <<>>]

\* the struct behind the elements of a slice, or behind a struct field
FieldsOf(kind) ==
    IF kind = "clauses" THEN ClauseFields ELSE IF kind = "txs" THEN BodyFields ELSE HeaderFields
ZeroOf(kind) ==
    IF kind = "clauses" THEN ZeroClause ELSE IF kind = "txs" THEN ZeroBody ELSE ZeroHeader

RECURSIVE EncStructFrom(_, _, _)
RECURSIVE EncValue(_, _)

\* the encoding of a value of the given kind
EncValue(kind, v) ==
    IF kind = "uint" THEN RlpUint(v)
    ELSE IF kind = "bytes" THEN RlpBytes(v)
    ELSE IF kind \in {"hash", "array", "addr"} THEN RlpOptBytes(v)
    ELSE IF kind = "header" THEN RlpList(EncStructFrom(HeaderFields, v, 1))
    ELSE RlpList(Concat([i \in 1..Len(v) |-> RlpList(EncStructFrom(FieldsOf(kind), v[i], 1))]))

EncStructFrom(fields, v, k) ==
    IF k > Len(fields) THEN <<>>
    ELSE EncValue(fields[k].kind, v[fields[k].name]) \o EncStructFrom(fields, v, k + 1)

EncStruct(fields, v) == RlpList(EncStructFrom(fields, v, 1))

RECURSIVE DecStructFrom(_, _, _, _, _, _)
RECURSIVE DecStructStep(_, _, _, _, _, _)
RECURSIVE DecStructIn(_, _, _, _)
RECURSIVE DecValue(_, _, _, _)
RECURSIVE DecElemsFrom(_, _, _, _, _, _)
RECURSIVE DecElemsStep(_, _, _, _, _, _)
RECURSIVE DecElemsIn(_, _, _)

\* a struct: its list, then its fields in order, then the end of the list
DecStruct(fields, zero, bs, pos, end) ==
    DecStructIn(fields, zero, bs, DecListHead(bs, pos, end))

DecStructIn(fields, zero, bs, l) ==
    IF l.err # Nil THEN Failed(l.err, zero)
    ELSE DecStructFrom(fields, zero, bs, l.val, l.next, 1)

DecStructFrom(fields, acc, bs, pos, end, k) ==
    IF k > Len(fields)
    THEN IF pos < end THEN Failed("input list has too many elements", acc)
                      ELSE Decoded(acc, end)
    ELSE DecStructStep(fields, acc, bs, end, k, DecValue(fields[k].kind, bs, pos, end))

\* field k decoded as d
DecStructStep(fields, acc, bs, end, k, d) ==
    IF d.err = "EOL" THEN Failed("too few elements", acc)
    ELSE IF d.err # Nil
         THEN Failed(d.err, IF fields[k].kind \in {"clauses", "txs", "header"}
                            THEN [acc EXCEPT ![fields[k].name] = d.val] ELSE acc)
    ELSE DecStructFrom(fields, [acc EXCEPT ![fields[k].name] = d.val], bs, d.next, end, k + 1)

\* a slice of struct pointers: the elements up to the end of the list
DecElemsFrom(kind, acc, bs, pos, end, n) ==
    DecElemsStep(kind, acc, bs, end, n, DecStruct(FieldsOf(kind), ZeroOf(kind), bs, pos, end))

DecElemsStep(kind, acc, bs, end, n, d) ==
    IF d.err = "EOL" THEN Decoded(acc, end)
    ELSE IF d.err # Nil THEN Failed(d.err, acc)
    ELSE DecElemsFrom(kind, Append(acc, d.val), bs, d.next, end, n + 1)

DecElemsIn(kind, bs, l) ==
    IF l.err # Nil THEN Failed(l.err, <<>>)
    ELSE DecElemsFrom(kind, <<>>, bs, l.val, l.next, 1)

DecValue(kind, bs, pos, end) ==
    IF kind = "uint" THEN DecUint(bs, pos, end)
    ELSE IF kind = "bytes" THEN DecBytes(bs, pos, end)
    ELSE IF kind \in {"hash", "addr"}
         THEN DecOptArray(IF kind = "hash" THEN HashLen ELSE AddrLen, bs, pos, end)
    ELSE IF kind = "array" THEN DecArray(HashLen, bs, pos, end)
    ELSE IF kind = "header" THEN DecStruct(HeaderFields, ZeroHeader, bs, pos, end)
    ELSE DecElemsIn(kind, bs, DecListHead(bs, pos, end))

\* the end of a stream that has no input limit
NoLimit(bs) == Len(bs) + 1000

(***************************************************************************)
(* The hash accumulator: 256 bits computed from the bytes written to it.   *)
(* Two running sums of the input stand for the digest function.            *)
(***************************************************************************)
RECURSIVE ByteSum(_, _, _, _)
ByteSum(bs, lo, hi, weighted) ==
    IF lo > hi THEN 0
    ELSE IF lo = hi THEN (IF weighted THEN lo * bs[lo] ELSE bs[lo])
    ELSE (ByteSum(bs, lo, (lo + hi) \div 2, weighted)
          + ByteSum(bs, (lo + hi) \div 2 + 1, hi, weighted)) % 65521

Hasher(bs) ==
    LET s1 == ByteSum(bs, 1, Len(bs), FALSE)
        s2 == ByteSum(bs, 1, Len(bs), TRUE)
    IN  [i \in 1..HashLen |-> (s1 * i + s2 + (i * i) + Len(bs)) % 256]

ZeroHash == [i \in 1..HashLen |-> 0]

(***************************************************************************)
(* Gas schedule.                                                           *)
(***************************************************************************)
TxGas == 21000
TxGasContractCreation == 53000
TxDataZeroGas == 4
TxDataNonZeroGas == 68
ClauseGas == 16000
ClauseGasContractCreation == 48000

(***************************************************************************)
(* What IntrinsicGas reads of a clause: whether it creates a contract      *)
(* (To == nil), and the numbers of non-zero and zero bytes of its data.    *)
(***************************************************************************)
GasView(creation, nz, zeros) == [creation |-> creation, nz |-> nz, zeros |-> zeros]

\* core.IntrinsicGas(data, contractCreation, true)
CoreIntrinsicGas(c) ==
    LET base == IF c.creation THEN TxGasContractCreation ELSE TxGas
        m1   == NatMul(c.nz, TxDataNonZeroGas)
        m2   == NatMul(c.zeros, TxDataZeroGas)
    IN  BigAdd(BigAdd(BigOf(base), SetUint64(m1)), SetUint64(m2))

(***************************************************************************)
(* State.                                                                  *)
(*   IntrinsicGas: the clauses of the receiver, the position in the        *)
(*     function, the loop index, the running total, the total before the   *)
(*     clause being added (a history variable) and the result.             *)
(*   The objects: mem holds the storage a caller can alias (byte arrays,   *)
(*     big.Int values, transaction slices), txs the Transaction instances, *)
(*     blocks the Block instances, last the latest call and its result.    *)
(*   The goroutines calling Hash: hcache is the field t.cache.hash (unset, *)
(*     or the goroutine whose hash variable it points to), and for each    *)
(*     goroutine hpc is its position in Hash, hloc its local cached, hret  *)
(*     the hash its latest call returned, hcalls its calls so far.         *)
(***************************************************************************)
VARIABLES gclauses, gpc, gi, total, before, gret,
          mem, txs, blocks, last,
          hcache, hpc, hloc, hret, hcalls

gvars == <<gclauses, gpc, gi, total, before, gret>>
ovars == <<mem, txs, blocks, last>>
hvars == <<hcache, hpc, hloc, hret, hcalls>>
vars == <<gvars, ovars, hvars>>

NoCall == [n |-> 0, op |-> "none", recv |-> 0, arg |-> 0, ret |-> <<>>, err |-> FALSE, src |-> 0]

\* the objects when a specification does not use them
ObjectsIdle == mem = <<>> /\ txs = <<>> /\ blocks = <<>> /\ last = NoCall

\* no goroutine calling Hash
HashIdle == hcache = <<>> /\ hpc = <<>> /\ hloc = <<>> /\ hret = <<>> /\ hcalls = <<>>

MaxClauses == 3

\* data sizes: empty, small, and the two sizes around the 64-bit limit of the total
\* ((2^64 - TxGas) / TxDataZeroGas zero bytes make the total exactly 2^64)
ZerosAtLimit == NatSub(NatPow2(62), NatOf(TxGas \div TxDataZeroGas))
ZerosBelowLimit == NatSub(ZerosAtLimit, NatOf(1))

GasViews ==
    { GasView(FALSE, NatZero, NatZero),
      GasView(TRUE, NatZero, NatZero),
      GasView(FALSE, NatOf(2), NatOf(1)),
      GasView(TRUE, NatOf(3), NatZero),
      GasView(FALSE, NatZero, ZerosBelowLimit),
      GasView(FALSE, NatZero, ZerosAtLimit) }

RECURSIVE SeqsUpTo(_, _)
SeqsUpTo(S, n) ==
    IF n = 0 THEN {<<>>}
    ELSE LET shorter == SeqsUpTo(S, n - 1)
         IN  shorter \cup {Append(s, x) : s \in {t \in shorter : Len(t) = n - 1}, x \in S}

GasInputs == SeqsUpTo(GasViews, MaxClauses)

NoRet == [val |-> NatZero, err |-> FALSE]

GasIdle(cs) ==
    /\ gclauses = cs
    /\ gpc = "call"
    /\ gi = 0
    /\ total = BigOf(0)
    /\ before = BigOf(0)
    /\ gret = NoRet

GasInit == ObjectsIdle /\ HashIdle /\ \E cs \in GasInputs : GasIdle(cs)

\* lines 137-143: no clauses, or the first clause
GasFirst ==
    /\ UNCHANGED <<ovars, hvars>>
    /\ gpc = "call"
    /\ IF Len(gclauses) = 0
       THEN /\ gret' = [val |-> NatOf(TxGas), err |-> FALSE]
            /\ gpc' = "done"
            /\ UNCHANGED <<total, gi>>
       ELSE /\ total' = CoreIntrinsicGas(gclauses[1])
            /\ gi' = 2
            /\ gpc' = "loop"
            /\ gret' = gret
    /\ before' = before
    /\ UNCHANGED gclauses

\* line 147: total.Add(total, core.IntrinsicGas(...))
GasAdd ==
    /\ UNCHANGED <<ovars, hvars>>
    /\ gpc = "loop"
    /\ gi <= Len(gclauses)
    /\ total' = BigAdd(total, CoreIntrinsicGas(gclauses[gi]))
    /\ before' = total
    /\ gpc' = "sub"
    /\ UNCHANGED <<gclauses, gi, gret>>

\* a slip: the per-clause base cost itself as the discount
OverpayedClauseGas(creation) ==
    IF creation THEN ClauseGasContractCreation ELSE ClauseGas

\* a slip: the whole transaction-level creation cost as the discount
OverpayedWhole(creation) == TxGasContractCreation

\* the over-payed gas of a clause after the first one
Overpayed(creation) ==
    IF creation THEN TxGasContractCreation - ClauseGasContractCreation
                ELSE TxGas - ClauseGas

\* lines 150-154: total.Sub(total, ...)
GasSub ==
    /\ UNCHANGED <<ovars, hvars>>
    /\ gpc = "sub"
    /\ total' = BigSub(total, SetUint64(NatOf(Overpayed(gclauses[gi].creation))))
    /\ gi' = gi + 1
    /\ gpc' = "loop"
    /\ UNCHANGED <<gclauses, before, gret>>

\* a slip: off by one bit
TooLargeFrom64(t) == BitLen(t) >= 64

\* the test of line 157
TooLarge(t) == BitLen(t) > 64

\* lines 157-160
GasReturn ==
    /\ UNCHANGED <<ovars, hvars>>
    /\ gpc = "loop"
    /\ gi > Len(gclauses)
    /\ gret' = IF TooLarge(total) THEN [val |-> NatZero, err |-> TRUE]
                                  ELSE [val |-> Uint64(total), err |-> FALSE]
    /\ gpc' = "done"
    /\ UNCHANGED <<gclauses, gi, total, before>>

\* the next call, on another transaction
GasCall ==
    /\ UNCHANGED <<ovars, hvars>>
    /\ gpc = "done"
    /\ \E cs \in GasInputs :
          /\ gclauses' = cs
          /\ gpc' = "call"
          /\ gi' = 0
          /\ total' = BigOf(0)
          /\ before' = BigOf(0)
          /\ gret' = NoRet

GasNext == GasFirst \/ GasAdd \/ GasSub \/ GasReturn \/ GasCall

SpecGas == GasInit /\ [][GasNext]_vars

(***************************************************************************)
(* Claims about IntrinsicGas (under SpecGas).                              *)
(***************************************************************************)
\* the rule as stated: the first clause in full, each later clause less the
\* difference of the transaction-level and the per-clause base cost of its kind
RECURSIVE RuleTotal(_, _)
RuleTotal(cs, n) ==
    IF n = 1 THEN CoreIntrinsicGas(cs[1])
    ELSE LET c    == cs[n]
             less == IF c.creation
                     THEN BigSub(CoreIntrinsicGas(c), BigOf(TxGasContractCreation - ClauseGasContractCreation))
                     ELSE BigSub(CoreIntrinsicGas(c), BigOf(TxGas - ClauseGas))
         IN  BigAdd(RuleTotal(cs, n - 1), less)

PlainCall == GasView(FALSE, NatZero, NatZero)

\* C4: IntrinsicGas returns the flat base transaction gas for no clauses, and
\* otherwise the first clause's standard intrinsic gas plus, per later clause,
\* its standard intrinsic gas less (transaction-level base - per-clause base)
\* of its kind; N plain calls cost TxGas + (N-1) * ClauseGas.
C4_IntrinsicGasRule ==
    gpc = "done" =>
        /\ Len(gclauses) = 0 => gret = [val |-> NatOf(TxGas), err |-> FALSE]
        /\ Len(gclauses) > 0 =>
              /\ total = RuleTotal(gclauses, Len(gclauses))
              /\ ~gret.err => gret.val = RuleTotal(gclauses, Len(gclauses)).abs
        /\ (Len(gclauses) > 0 /\ \A i \in 1..Len(gclauses) : gclauses[i] = PlainCall) =>
              gret = [val |-> NatOf(TxGas + (Len(gclauses) - 1) * ClauseGas), err |-> FALSE]

C4_Witness ==
    /\ gpc = "done"
    /\ Len(gclauses) = 3
    /\ gclauses[2].creation
    /\ gclauses[3] = PlainCall
    /\ ~gret.err

\* C5: IntrinsicGas fails exactly when the accumulated total exceeds 2^64 - 1,
\* and otherwise returns the total itself, not a wrapped or truncated value.
C5_TooLargeExactly ==
    gpc = "done" =>
        /\ Len(gclauses) = 0 => ~gret.err
        /\ Len(gclauses) > 0 =>
              /\ gret.err <=> (~total.neg /\ NatCmp(total.abs, MaxUint64) > 0)
              /\ ~gret.err => (~total.neg /\ gret.val = total.abs)

C5_Witness ==
    /\ gpc = "done"
    /\ gret.err
    /\ total.abs = NatPow2(64)

\* C10: the running total is never negative, and after a later clause has
\* been added and its discount subtracted the total is at least what it was
\* before that clause.
C10_TotalNeverNegative ==
    /\ ~total.neg
    /\ (gpc = "loop" /\ gi > 2) => (~before.neg /\ NatCmp(total.abs, before.abs) >= 0)

C10_Witness ==
    /\ gpc = "loop"
    /\ gi = 3
    /\ gclauses[2] = PlainCall
    /\ total = BigAdd(before, BigOf(ClauseGas))

(***************************************************************************)
(* The objects.  A pointer or a slice is the address of a cell of mem; a   *)
(* cell holds a byte array, a big.Int (one number) or the elements of a    *)
(* transaction slice (the indices of the instances in txs), and whether    *)
(* the caller holds a reference to it and so can write to it.  The caller  *)
(* keeps one reference, the one it made or was handed last.  A cell that   *)
(* neither the caller nor an instance refers to is garbage and is free     *)
(* for the next allocation.                                                *)
(***************************************************************************)
MaxCells == 10
MaxTxs == 2
MaxBlocks == 2
MaxBlockTxs == 2
MaxCalls == 3

Cell(kind, data, held) == [kind |-> kind, data |-> data, held |-> held]
FreeCell == Cell("free", <<>>, FALSE)

FreeAddrs(m) == {a \in DOMAIN m : m[a].kind = "free"}
NewAddr(m) == CHOOSE a \in FreeAddrs(m) : \A b \in FreeAddrs(m) : a <= b

\* the cell c in newly allocated storage
Alloc(m, c) == [mem |-> [m EXCEPT ![NewAddr(m)] = c], at |-> NewAddr(m)]

Referenced(a, ts, bl) ==
    \/ \E t \in 1..Len(ts) : ts[t].body.GasPrice = a \/ ts[t].body.Signature = a
    \/ \E b \in 1..Len(bl) : bl[b].txs = a

\* the caller's reference forgotten
Release(m) == [a \in DOMAIN m |-> [m[a] EXCEPT !.held = FALSE]]

\* a slice the caller makes: the argument of a call
Made(m, kind, data) == Alloc(Release(m), Cell(kind, data, TRUE))

\* the garbage collector
Collect(m, ts, bl) ==
    [a \in DOMAIN m |-> IF m[a].held \/ Referenced(a, ts, bl) THEN m[a] ELSE FreeCell]

\* the record of a call, the n-th of the run
Call(op, recv, arg, ret, err, src) ==
    [n |-> last.n + 1, op |-> op, recv |-> recv, arg |-> arg, ret |-> ret, err |-> err, src |-> src]

\* the logical fields of instance t: its body with the pointers followed
BodyOf(ts, m, t) ==
    [ts[t].body EXCEPT !.GasPrice = m[ts[t].body.GasPrice].data[1],
                       !.Signature = m[ts[t].body.Signature].data]

\* Transaction.EncodeRLP: rlp.Encode(w, &t.body)
EncodeTx(b) == EncStruct(BodyFields, b)

\* a slip: the signature hashed with the rest
SigningFieldsWithSignature == BodyFields

\* the ordered tuple SigningHash encodes
SigningFields ==
    << Field("Clauses", "clauses"), Field("GasPrice", "uint"), Field("Gas", "uint"),
       Field("Nonce", "uint"), Field("TimeBarrier", "uint"), Field("DependsOn", "hash") >>

\* Transaction.SigningHash of the logical fields b
SigningHash(b) == Hasher(EncStruct(SigningFields, b))

\* the hash Transaction.Hash computes when the cache is unset (lines 43-46)
FullHash(b) == Hasher(EncodeTx(b))

\* a slip: the receiver's cache copied into the new instance
WithSignatureCacheKept(old, sigAddr) ==
    [body |-> [old.body EXCEPT !.Signature = sigAddr], cache |-> old.cache]

\* the instance WithSignature builds (lines 109-113), its signature stored at sigAddr
WithSignatureTx(old, sigAddr) ==
    [body |-> [old.body EXCEPT !.Signature = sigAddr], cache |-> None]

\* append([]byte(nil), sig...): the copy of the bytes at a, in a cell of its own
SigCopy(m, a) == Alloc(m, Cell("bytes", m[a].data, FALSE))

\* a slip: the internal storage handed out
ReturnedShared(m, a) == [mem |-> [Release(m) EXCEPT ![a].held = TRUE], at |-> a]

\* what an accessor returns for the internal storage at a: a copy the caller holds
\* (append([]byte(nil), ...), new(big.Int).Set(...), append(tx.Transactions(nil), ...))
ReturnedCopy(m, a) == Alloc(Release(m), Cell(m[a].kind, m[a].data, TRUE))

TxIds == 1..Len(txs)
BlockIds == 1..Len(blocks)

\* the run has calls left
CallsLeft == last.n < MaxCalls

\* room for n more cells
Room(n) == Cardinality(FreeAddrs(mem)) >= n

\* Transaction.Hash, one caller
TxHash(t) ==
    /\ CallsLeft
    /\ IF txs[t].cache # None
       THEN /\ last' = Call("Hash", t, 0, txs[t].cache[1], FALSE, 0)
            /\ txs' = txs
       ELSE /\ txs' = [txs EXCEPT ![t].cache = Some(FullHash(BodyOf(txs, mem, t)))]
            /\ last' = Call("Hash", t, 0, FullHash(BodyOf(txs, mem, t)), FALSE, 0)
    /\ UNCHANGED <<mem, blocks, gvars, hvars>>

\* Transaction.SigningHash
TxSigningHash(t) ==
    /\ CallsLeft
    /\ last' = Call("SigningHash", t, 0, SigningHash(BodyOf(txs, mem, t)), FALSE, 0)
    /\ UNCHANGED <<mem, txs, blocks, gvars, hvars>>

\* the copy r handed to the caller by accessor op of instance i
Returns(op, i, r) ==
    /\ mem' = Collect(r.mem, txs, blocks)
    /\ last' = Call(op, i, 0, <<r.at>>, FALSE, 0)

\* Transaction.GasPrice
TxGasPrice(t) ==
    /\ CallsLeft
    /\ Room(1)
    /\ Returns("GasPrice", t, ReturnedCopy(mem, txs[t].body.GasPrice))
    /\ UNCHANGED <<txs, blocks, gvars, hvars>>

\* Transaction.Signature
TxSignature(t) ==
    /\ CallsLeft
    /\ Room(1)
    /\ Returns("Signature", t, ReturnedCopy(mem, txs[t].body.Signature))
    /\ UNCHANGED <<txs, blocks, gvars, hvars>>

WithSignatureStored(t, a, c) ==
    /\ txs' = Append(txs, WithSignatureTx(txs[t], c.at))
    /\ mem' = Collect(c.mem, Append(txs, WithSignatureTx(txs[t], c.at)), blocks)
    /\ last' = Call("WithSignature", t, a, <<Len(txs) + 1>>, FALSE, 0)

WithSignatureOf(t, arg) == WithSignatureStored(t, arg.at, SigCopy(arg.mem, arg.at))

\* Transaction.WithSignature(sig), sig a byte slice of the caller's
TxWithSignature(t, sig) ==
    /\ CallsLeft
    /\ Room(2)
    /\ Len(txs) < MaxTxs
    /\ WithSignatureOf(t, Made(mem, "bytes", sig))
    /\ UNCHANGED <<blocks, gvars, hvars>>

\* an instance with its pointers followed
TxValue(ts, m, t) == [body |-> BodyOf(ts, m, t), cache |-> ts[t].cache]

\* the zero Transaction a decode into a new instance starts from
ZeroTx == [body |-> ZeroBody, cache |-> None]

\* a slip: decoding into the receiver's own body, s.Decode(&t.body)
TxDecodedInPlace(old, d) == [body |-> d.val, cache |-> old.cache]

\* what DecodeRLP leaves in *t (lines 124-131), d being the decode of the
\* input into the local body
TxDecoded(old, d) ==
    IF d.err # Nil THEN old ELSE [body |-> d.val, cache |-> None]

\* the logical transaction v stored: its big.Int and its signature in new cells
StoredSig(v, g, s) ==
    [mem |-> s.mem,
     tx  |-> [body |-> [v.body EXCEPT !.GasPrice = g.at, !.Signature = s.at], cache |-> v.cache]]
StoredBig(v, g) == StoredSig(v, g, Alloc(g.mem, Cell("bytes", v.body.Signature, FALSE)))
Stored(m, v) == StoredBig(v, Alloc(m, Cell("big", <<v.body.GasPrice>>, FALSE)))

\* instance t replaced (or, for t = Len(ts) + 1, added)
Placed(ts, t, rec) == IF t = Len(ts) + 1 THEN Append(ts, rec) ELSE [ts EXCEPT ![t] = rec]

TxDecodeStored(t, st) ==
    /\ txs' = Placed(txs, t, st.tx)
    /\ mem' = Collect(st.mem, Placed(txs, t, st.tx), blocks)

TxDecodeDone(t, src, d, old, new) ==
    /\ IF d.err # Nil /\ new = old
       THEN UNCHANGED <<mem, txs>>
       ELSE Room(2) /\ TxDecodeStored(t, Stored(mem, new))
    /\ last' = Call("TxDecodeRLP", t, 0, <<>>, d.err # Nil, src)

TxDecodeInto(t, src, d, old) == TxDecodeDone(t, src, d, old, TxDecoded(old, d))

\* Transaction.DecodeRLP on instance t (Len(txs) + 1: a new instance)
TxDecodeRLP(t, input, src) ==
    /\ CallsLeft
    /\ t = Len(txs) + 1 => Len(txs) < MaxTxs
    /\ TxDecodeInto(t, src, DecStruct(BodyFields, ZeroBody, input, 1, NoLimit(input)),
                    IF t = Len(txs) + 1 THEN ZeroTx ELSE TxValue(txs, mem, t))
    /\ UNCHANGED <<blocks, gvars, hvars>>

(***************************************************************************)
(* The caller writes to the storage it holds a reference to.               *)
(***************************************************************************)
\* the first element overwritten with v
CallerWrite(a, v) ==
    /\ CallsLeft
    /\ mem[a].held
    /\ mem[a].data # <<>>
    /\ mem[a].data[1] # v
    /\ mem' = [mem EXCEPT ![a].data[1] = v]
    /\ last' = Call("write", 0, a, <<>>, FALSE, 0)
    /\ UNCHANGED <<txs, blocks, gvars, hvars>>

\* the values a caller writes into a cell
WriteValues(a) ==
    IF mem[a].kind = "bytes" THEN {9} ELSE IF mem[a].kind = "big" THEN {3} ELSE {Len(txs)}

(***************************************************************************)
(* Block.                                                                  *)
(***************************************************************************)
\* Header.withSignature: the header with the signature replaced
HeaderWithSignature(h, sig) == [h EXCEPT !.Signature = sig]

\* a block with the elements of its slice followed
BlockVal(bl, ts, m, b) ==
    [Header |-> bl[b].header,
     Txs |-> [i \in 1..Len(m[bl[b].txs].data) |-> BodyOf(ts, m, m[bl[b].txs].data[i])]]

EncodeBlock(v) == EncStruct(BlockFields, v)

\* append(tx.Transactions(nil), txs...)
TxsCopy(m, a) == Alloc(m, Cell("txs", m[a].data, FALSE))

Composed(h, a, c) ==
    /\ mem' = Collect(c.mem, txs, Append(blocks, [header |-> h, txs |-> c.at, cache |-> None]))
    /\ blocks' = Append(blocks, [header |-> h, txs |-> c.at, cache |-> None])
    /\ last' = Call("Compose", 0, a, <<Len(blocks) + 1>>, FALSE, 0)

ComposeOf(h, arg) == Composed(h, arg.at, TxsCopy(arg.mem, arg.at))

\* Compose(header, txs), txs a slice of the caller's
Compose(h, s) ==
    /\ CallsLeft
    /\ Len(blocks) < MaxBlocks
    /\ Room(2)
    /\ ComposeOf(h, Made(mem, "txs", s))
    /\ UNCHANGED <<txs, gvars, hvars>>

\* a slip: the size cache copied with the rest
BlockWithSignatureCacheKept(old, sig) ==
    [header |-> HeaderWithSignature(old.header, sig), txs |-> old.txs, cache |-> old.cache]

\* the Block that WithSignature builds (lines 38-41)
BlockWithSignatureOf(old, sig) ==
    [header |-> HeaderWithSignature(old.header, sig), txs |-> old.txs, cache |-> None]

\* Block.WithSignature(sig)
BlockWithSignature(b, sig) ==
    /\ CallsLeft
    /\ Len(blocks) < MaxBlocks
    /\ blocks' = Append(blocks, BlockWithSignatureOf(blocks[b], sig))
    /\ last' = Call("BlockWithSignature", b, 0, <<Len(blocks) + 1>>, FALSE, 0)
    /\ UNCHANGED <<mem, txs, gvars, hvars>>

\* Block.Transactions
BlockTransactions(b) ==
    /\ CallsLeft
    /\ Room(1)
    /\ Returns("Transactions", b, ReturnedCopy(mem, blocks[b].txs))
    /\ UNCHANGED <<txs, blocks, gvars, hvars>>

\* Block.Body
BlockBody(b) ==
    /\ CallsLeft
    /\ Room(1)
    /\ Returns("Body", b, ReturnedCopy(mem, blocks[b].txs))
    /\ UNCHANGED <<txs, blocks, gvars, hvars>>

\* what Size counts when the cache is unset (lines 91-94)
CountedSize(v) == Len(EncodeBlock(v))

\* Block.Size
BlockSize(b) ==
    /\ CallsLeft
    /\ IF blocks[b].cache # None
       THEN /\ last' = Call("Size", b, 0, blocks[b].cache, FALSE, 0)
            /\ blocks' = blocks
       ELSE /\ blocks' = [blocks EXCEPT ![b].cache = Some(CountedSize(BlockVal(blocks, txs, mem, b)))]
            /\ last' = Call("Size", b, 0, <<CountedSize(BlockVal(blocks, txs, mem, b))>>, FALSE, 0)
    /\ UNCHANGED <<mem, txs, gvars, hvars>>

\* a block with its slice followed, and its cache
BlockValue(bl, ts, m, b) == [val |-> BlockVal(bl, ts, m, b), cache |-> bl[b].cache]

ZeroBlock == [val |-> ZeroPayload, cache |-> None]

\* what DecodeRLP leaves in *b (lines 69-82), d being the decode of the input
\* into the local payload
BlockDecoded(old, d) ==
    IF d.err # Nil THEN old ELSE [val |-> d.val, cache |-> None]

\* the decoded transactions vs stored as new instances, one after the other
RECURSIVE StoredAll(_, _, _)
RECURSIVE StoredNext(_, _, _)
StoredAll(m, ts, vs) ==
    IF Len(vs) = 0 THEN [mem |-> m, txs |-> ts]
    ELSE StoredNext(ts, vs, Stored(m, [body |-> vs[1], cache |-> None]))
StoredNext(ts, vs, st) == StoredAll(st.mem, Append(ts, st.tx), Tail(vs))

BlockPlaced(b, new, sa, c) ==
    /\ txs' = sa.txs
    /\ blocks' = Placed(blocks, b, [header |-> new.val.Header, txs |-> c.at, cache |-> new.cache])
    /\ mem' = Collect(c.mem, sa.txs,
                      Placed(blocks, b, [header |-> new.val.Header, txs |-> c.at, cache |-> new.cache]))

BlockStored(b, new, sa) ==
    BlockPlaced(b, new, sa,
                Alloc(sa.mem, Cell("txs", [i \in 1..Len(new.val.Txs) |-> Len(txs) + i], FALSE)))

BlockDecodeDone(b, src, d, old, new) ==
    /\ IF d.err # Nil /\ new = old
       THEN UNCHANGED <<mem, txs, blocks>>
       ELSE /\ Room(2 * Len(new.val.Txs) + 1)
            /\ Len(txs) + Len(new.val.Txs) <= MaxTxs
            /\ BlockStored(b, new, StoredAll(mem, txs, new.val.Txs))
    /\ last' = Call("BlockDecodeRLP", b, 0, <<>>, d.err # Nil, src)

BlockDecodeInto(b, src, d, old) == BlockDecodeDone(b, src, d, old, BlockDecoded(old, d))

\* Block.DecodeRLP on instance b (Len(blocks) + 1: a new instance)
BlockDecodeRLP(b, input, src) ==
    /\ CallsLeft
    /\ b = Len(blocks) + 1 => Len(blocks) < MaxBlocks
    /\ BlockDecodeInto(b, src, DecStruct(PayloadFields, ZeroPayload, input, 1, NoLimit(input)),
                       IF b = Len(blocks) + 1 THEN ZeroBlock ELSE BlockValue(blocks, txs, mem, b))
    /\ UNCHANGED <<gvars, hvars>>

(***************************************************************************)
(* The specification of the objects.                                       *)
(***************************************************************************)
Addr1 == [i \in 1..AddrLen |-> 200 + i]
Hash1 == [i \in 1..HashLen |-> i]

CallClause == [To |-> Some(Addr1), Value |-> 0, Data |-> <<>>]
CreateClause == [To |-> None, Value |-> 300, Data |-> <<0, 7>>]

\* transactions as a builder assembles them: without clauses and unsigned, its
\* depends_on absent, or with a clause and signed, its depends_on the zero hash
TxBodies ==
    { [Clauses |-> <<>>, GasPrice |-> 0, Gas |-> 21000, Nonce |-> 0, TimeBarrier |-> 0,
       DependsOn |-> None, Signature |-> <<>>],
      [Clauses |-> <<CallClause>>, GasPrice |-> 200, Gas |-> 21000, Nonce |-> 1,
       TimeBarrier |-> 0, DependsOn |-> Some(ZeroHash), Signature |-> <<5>>] }

\* a transaction received from the wire
WireBody ==
    [Clauses |-> <<CreateClause, CallClause>>, GasPrice |-> 1, Gas |-> 90000, Nonce |-> 2,
     TimeBarrier |-> 1000, DependsOn |-> Some(Hash1), Signature |-> <<200, 1>>]

Headers == { [Fields |-> 1, Signature |-> <<>>] }

\* the signatures a caller supplies
Signatures == { <<200, 1>> }

GasUnused ==
    /\ gclauses = <<>>
    /\ gpc = "idle"
    /\ gi = 0
    /\ total = BigOf(0)
    /\ before = BigOf(0)
    /\ gret = NoRet

InitWith(st) ==
    /\ mem = st.mem
    /\ txs = <<st.tx>>

\* one transaction, as its builder leaves it
ObjectsInit ==
    /\ \E b \in TxBodies :
          InitWith(Stored([a \in 1..MaxCells |-> FreeCell], [body |-> b, cache |-> None]))
    /\ blocks = <<>>
    /\ last = NoCall

Init == GasUnused /\ HashIdle /\ ObjectsInit

\* the inputs of a decode: an encoding whole (of instance src, or from the
\* wire: src = 0), cut short, or with a string where the list should be
Damaged(enc) ==
    { SubSeq(enc, 1, Len(enc) - 1), SubSeq(enc, 1, Len(enc) \div 2), <<129>> \o Tail(enc) }

Input(bytes, src) == [bytes |-> bytes, src |-> src]

WireInputs == {Input(EncodeTx(WireBody), 0)} \cup {Input(x, 0) : x \in Damaged(EncodeTx(WireBody))}

TxInputs == {Input(EncodeTx(BodyOf(txs, mem, t)), t) : t \in TxIds} \cup WireInputs

BlockInputs ==
    {Input(EncodeBlock(BlockVal(blocks, txs, mem, b)), b) : b \in BlockIds}
    \cup {Input(x, 0) : x \in UNION {Damaged(EncodeBlock(BlockVal(blocks, txs, mem, b))) : b \in BlockIds}}

\* the instances some transaction slice refers to
Shared ==
    UNION {{mem[a].data[i] : i \in 1..Len(mem[a].data)} : a \in {c \in DOMAIN mem : mem[c].kind = "txs"}}

\* a decode is into a new instance or into one that no slice refers to: the
\* transactions a block or a caller's slice holds are left as they are
\* ("Transaction is an immutable tx type", line 15)
TxTargets == (1..(Len(txs) + 1)) \ Shared
BlockTargets == 1..(Len(blocks) + 1)

TxSlices == {s \in SeqsUpTo(TxIds, MaxBlockTxs) : \A i, j \in 1..Len(s) : i < j => s[i] < s[j]}

Next ==
    \/ \E t \in TxIds : TxHash(t)
    \/ \E t \in TxIds : TxSigningHash(t)
    \/ \E t \in TxIds : TxGasPrice(t)
    \/ \E t \in TxIds : TxSignature(t)
    \/ \E t \in TxIds, sig \in Signatures : TxWithSignature(t, sig)
    \/ \E t \in TxTargets, i \in TxInputs : TxDecodeRLP(t, i.bytes, i.src)
    \/ \E a \in DOMAIN mem : \E v \in WriteValues(a) : CallerWrite(a, v)
    \/ \E h \in Headers, s \in TxSlices : Compose(h, s)
    \/ \E b \in BlockIds, sig \in Signatures : BlockWithSignature(b, sig)
    \/ \E b \in BlockIds : BlockTransactions(b)
    \/ \E b \in BlockIds : BlockBody(b)
    \/ \E b \in BlockIds : BlockSize(b)
    \/ \E b \in BlockTargets, i \in BlockInputs : BlockDecodeRLP(b, i.bytes, i.src)

Spec == Init /\ [][Next]_vars

(***************************************************************************)
(* Claims about the objects (under Spec).                                   *)
(***************************************************************************)
\* what the latest call returned
Returned == last.ret[1]
Stepped == last' # last

SameUnsigned(a, b) == [a EXCEPT !.Signature = <<>>] = [b EXCEPT !.Signature = <<>>]

\* C1: the signing hash of the instance WithSignature returns equals the
\* receiver's, and any two transactions that differ only in their signature
\* have the same signing hash.
C1_SigningHashIgnoresSignature ==
    /\ last.op = "WithSignature" =>
          SigningHash(BodyOf(txs, mem, Returned)) = SigningHash(BodyOf(txs, mem, last.recv))
    /\ \A t, u \in TxIds :
          SameUnsigned(BodyOf(txs, mem, t), BodyOf(txs, mem, u)) =>
             SigningHash(BodyOf(txs, mem, t)) = SigningHash(BodyOf(txs, mem, u))

C1_Witness ==
    /\ last.op = "WithSignature"
    /\ BodyOf(txs, mem, Returned).Signature # BodyOf(txs, mem, last.recv).Signature
    /\ FullHash(BodyOf(txs, mem, Returned)) # FullHash(BodyOf(txs, mem, last.recv))

\* C3: a WithSignature call leaves every existing instance, the receiver
\* with its cache included, as it was, and returns a new instance with the
\* receiver's unsigned fields, the signature passed and an unset cache.
C3_WithSignatureKeepsReceiver ==
    [][ (Stepped /\ last'.op = "WithSignature") =>
          /\ \A t \in TxIds : TxValue(txs', mem', t) = TxValue(txs, mem, t)
          /\ last'.ret[1] = Len(txs) + 1
          /\ Len(txs') = Len(txs) + 1
          /\ BodyOf(txs', mem', Len(txs) + 1) =
                [BodyOf(txs, mem, last'.recv) EXCEPT !.Signature = mem'[last'.arg].data]
          /\ txs'[Len(txs) + 1].cache = None ]_vars

C3_Witness ==
    /\ last.op = "WithSignature"
    /\ txs[last.recv].cache # None
    /\ txs[Returned].cache = None
    /\ BodyOf(txs, mem, Returned).Signature # BodyOf(txs, mem, last.recv).Signature

\* C6: decoding the encoding of an instance, Transaction or Block, succeeds
\* and leaves in the receiver the logical fields of that instance, an absent
\* depends_on absent and a zero hash a zero hash, whatever the caches hold.
C6_DecodeOfEncode ==
    [][ /\ (Stepped /\ last'.op = "TxDecodeRLP" /\ last'.src # 0) =>
             /\ ~last'.err
             /\ BodyOf(txs', mem', last'.recv) = BodyOf(txs, mem, last'.src)
        /\ (Stepped /\ last'.op = "BlockDecodeRLP" /\ last'.src # 0) =>
             /\ ~last'.err
             /\ BlockVal(blocks', txs', mem', last'.recv) = BlockVal(blocks, txs, mem, last'.src) ]_vars

C6_Witness ==
    /\ last.op = "BlockDecodeRLP"
    /\ last.src # 0
    /\ last.recv # last.src
    /\ blocks[last.src].cache # None
    /\ blocks[last.recv].cache = None
    /\ \E i \in 1..Len(BlockVal(blocks, txs, mem, last.recv).Txs) :
          BlockVal(blocks, txs, mem, last.recv).Txs[i].DependsOn = None

C8_CopiesAreIndependent ==
    [][ /\ \A a \in DOMAIN mem' : mem'[a].held => ~Referenced(a, txs', blocks')
        /\ (Stepped /\ last'.op \in {"Signature", "GasPrice", "Transactions", "Body"}) =>
             mem[last'.ret[1]].kind = "free"
        /\ (Stepped /\ last'.op = "write") =>
             /\ \A t \in TxIds : TxValue(txs', mem', t) = TxValue(txs, mem, t)
             /\ \A b \in BlockIds :
                   BlockValue(blocks', txs', mem', b) = BlockValue(blocks, txs, mem, b) ]_vars

C8_Witness ==
    /\ last.op = "write"
    /\ mem[last.arg].kind = "txs"
    /\ \E b \in BlockIds :
          /\ mem[blocks[b].txs].data # <<>>
          /\ mem[blocks[b].txs].data # mem[last.arg].data

\* C9: a decode that fails leaves every instance, the receiver's fields and
\* cache included, as it was, and makes no new one; a decode that succeeds
\* leaves the decoded fields in the receiver and its cache unset.
C9_DecodeIsAtomic ==
    [][ /\ (Stepped /\ last'.op \in {"TxDecodeRLP", "BlockDecodeRLP"} /\ last'.err) =>
             /\ Len(txs') = Len(txs) /\ Len(blocks') = Len(blocks)
             /\ \A t \in TxIds : TxValue(txs', mem', t) = TxValue(txs, mem, t)
             /\ \A b \in BlockIds :
                   BlockValue(blocks', txs', mem', b) = BlockValue(blocks, txs, mem, b)
        /\ (Stepped /\ last'.op = "TxDecodeRLP" /\ ~last'.err) =>
             /\ txs'[last'.recv].cache = None
             /\ BodyOf(txs', mem', last'.recv) =
                   IF last'.src = 0 THEN WireBody ELSE BodyOf(txs, mem, last'.src)
             /\ FullHash(BodyOf(txs', mem', last'.recv)) =
                   IF last'.src = 0 THEN FullHash(WireBody)
                   ELSE FullHash(BodyOf(txs, mem, last'.src))
        /\ (Stepped /\ last'.op = "BlockDecodeRLP" /\ ~last'.err) =>
             /\ blocks'[last'.recv].cache = None
             /\ last'.src # 0
             /\ BlockVal(blocks', txs', mem', last'.recv) = BlockVal(blocks, txs, mem, last'.src) ]_vars

C9_Witness ==
    /\ last.op = "TxDecodeRLP"
    /\ last.err
    /\ last.recv \in TxIds
    /\ txs[last.recv].cache # None
    /\ BodyOf(txs, mem, last.recv).Clauses = <<>>

(***************************************************************************)
(* Concurrent Hash calls on one instance (transaction.go lines 38-49).     *)
(* t.cache.hash is an ordinary pointer field, read at line 39 and written  *)
(* at line 47 with no synchronisation, and hash, the variable it is made   *)
(* to point to, is written by hw.Sum at line 46.  A goroutine that loads a *)
(* pointer another goroutine stored reads that goroutine's hash variable   *)
(* in a data race with its writes: each machine word of the array it reads *)
(* is the zero the variable was allocated with, or the word written.       *)
(***************************************************************************)
MaxGoroutines == 2
MaxHashCalls == 2

Goroutines == 1..MaxGoroutines

WordBytes == 64 \div 8
HashWords == 1..(HashLen \div WordBytes)

\* *cached read by goroutine g, cached pointing to the hash variable of
\* goroutine owner that holds h, seen the words whose writes the read observes
Deref(h, owner, g, seen) ==
    [i \in 1..HashLen |-> IF owner = g \/ (i - 1) \div WordBytes + 1 \in seen THEN h[i] ELSE 0]

HashInit ==
    /\ GasUnused
    /\ ObjectsInit
    /\ hcache = None
    /\ hpc = [g \in Goroutines |-> "idle"]
    /\ hloc = [g \in Goroutines |-> None]
    /\ hret = [g \in Goroutines |-> None]
    /\ hcalls = [g \in Goroutines |-> 0]

\* line 39: cached := t.cache.hash
HashLoad(g) ==
    /\ hpc[g] = "idle"
    /\ hcalls[g] < MaxHashCalls
    /\ hloc' = [hloc EXCEPT ![g] = hcache]
    /\ hpc' = [hpc EXCEPT ![g] = "loaded"]
    /\ UNCHANGED <<hcache, hret, hcalls, gvars, ovars>>

\* line 40: return *cached
HashCached(g, seen) ==
    /\ hpc[g] = "loaded"
    /\ hloc[g] # None
    /\ hret' = [hret EXCEPT ![g] = Some(Deref(FullHash(BodyOf(txs, mem, 1)), hloc[g][1], g, seen))]
    /\ hpc' = [hpc EXCEPT ![g] = "idle"]
    /\ hcalls' = [hcalls EXCEPT ![g] = @ + 1]
    /\ UNCHANGED <<hcache, hloc, gvars, ovars>>

\* lines 43-46: the encoding hashed into the goroutine's own hash variable
HashSum(g) ==
    /\ hpc[g] = "loaded"
    /\ hloc[g] = None
    /\ hpc' = [hpc EXCEPT ![g] = "summed"]
    /\ UNCHANGED <<hcache, hloc, hret, hcalls, gvars, ovars>>

\* line 47: t.cache.hash = &hash
HashStore(g) ==
    /\ hpc[g] = "summed"
    /\ hcache' = Some(g)
    /\ hpc' = [hpc EXCEPT ![g] = "stored"]
    /\ UNCHANGED <<hloc, hret, hcalls, gvars, ovars>>

\* line 48: return hash
HashReturn(g) ==
    /\ hpc[g] = "stored"
    /\ hret' = [hret EXCEPT ![g] = Some(FullHash(BodyOf(txs, mem, 1)))]
    /\ hpc' = [hpc EXCEPT ![g] = "idle"]
    /\ hcalls' = [hcalls EXCEPT ![g] = @ + 1]
    /\ UNCHANGED <<hcache, hloc, gvars, ovars>>

HashNext ==
    \/ \E g \in Goroutines : HashLoad(g)
    \/ \E g \in Goroutines, seen \in SUBSET HashWords : HashCached(g, seen)
    \/ \E g \in Goroutines : HashSum(g)
    \/ \E g \in Goroutines : HashStore(g)
    \/ \E g \in Goroutines : HashReturn(g)

SpecHash == HashInit /\ [][HashNext]_vars

\* C2: in any interleaving of Hash calls on one instance every call returns
\* the hash of the instance's full encoding, never a hash that is unset or
\* only partly written.
C2_HashCallsAgree ==
    \A g \in DOMAIN hret :
       hret[g] # None => hret[g][1] = Hasher(EncodeTx(BodyOf(txs, mem, 1)))

====
